---- MODULE Spec2Model ----
(***************************************************************************)
(* Model of the semantic ruleset validator (the first script of            *)
(* src/unnamed/part_000).  One run: load schema/selectors.yml, discover    *)
(* the ruleset files, validate each file in turn, print its diagnostics,   *)
(* exit with the aggregate status.                                         *)
(*                                                                         *)
(* JavaScript values are records [t, nan, n, s]: t is the kind of value    *)
(* ("undefined", "null", "string", "number", "boolean", "array",           *)
(* "object"), n a number in units of 1/Scale, nan the NaN flag, s the      *)
(* characters of a string (a sequence of one-character strings).           *)
(* YAML.parse and glob are external: their results are the inputs.         *)
(***************************************************************************)
EXTENDS Integers, Sequences, FiniteSets, TLC

VARIABLES
    pc,               \* position of the script: "load", "find", "loop", "done"
    selectorsFile,    \* input: outcome of reading and parsing SELECTORS_PATH
    tree,             \* input: the matched ruleset files, in glob order
    existing,         \* input: the paths fs.access() accepts
    allowedSelectors, \* const allowedSelectors (a Set of strings)
    rulesetFiles,     \* const rulesetFiles (file names are indices into tree)
    fileIdx,          \* number of files the for-of loop has finished
    failedAny,        \* let failedAny
    console,          \* the lines printed so far, in order
    exitCode,         \* argument of process.exit, NoExit while running
    results           \* errors/warnings of each finished iteration

vars == <<pc, selectorsFile, tree, existing, allowedSelectors, rulesetFiles,
          fileIdx, failedAny, console, exitCode, results>>

----------------------------------------------------------------------------
(* Bounds of the explored inputs *)

MaxFiles == 2
MaxChecks == 3

(* Numbers are fixed-point decimals: Scale units make 1.0 *)
Scale == 10 * 10 * 10 * 10
NoExit == 0 - 1
TopLevel == 0 - 1

----------------------------------------------------------------------------
(* JavaScript values *)

Undef == [t |-> "undefined", nan |-> FALSE, n |-> 0, s |-> <<>>]
Null == [t |-> "null", nan |-> FALSE, n |-> 0, s |-> <<>>]
NaN == [t |-> "number", nan |-> TRUE, n |-> 0, s |-> <<>>]
Num(k) == [t |-> "number", nan |-> FALSE, n |-> k, s |-> <<>>]
Whole(k) == Num(k * Scale)
Str(chars) == [t |-> "string", nan |-> FALSE, n |-> 0, s |-> chars]

TypeOf(x) == IF x.t \in {"null", "array", "object"} THEN "object" ELSE x.t

IsArray(x) == x.t = "array"

isObject(x) == x.t # "null" /\ TypeOf(x) = "object" /\ ~IsArray(x)

IsNaN(x) == x.t = "number" /\ x.nan

IsInteger(x) == x.t = "number" /\ ~x.nan /\ x.n % Scale = 0

(* x < k for a number x and a literal k (false when x is NaN) *)
LessThan(x, k) == ~x.nan /\ x.n < k * Scale

GreaterThan(x, k) == ~x.nan /\ x.n > k * Scale

Abs(k) == IF k < 0 THEN 0 - k ELSE k

approxEqualsMutStrict(a, b, eps) == ~a.nan /\ ~b.nan /\ Abs(a.n - b.n) < eps

approxEquals(a, b, eps) == ~a.nan /\ ~b.nan /\ Abs(a.n - b.n) <= eps

(* a + b of two numbers *)
Plus(a, b) == IF a.nan \/ b.nan THEN NaN ELSE Num(a.n + b.n)

----------------------------------------------------------------------------
(* Strings *)

WhiteSpace == {" ", "\t", "\n", "\r"}

RECURSIVE TrimStart(_)
TrimStart(s) ==
    IF s = <<>> THEN s
    ELSE IF Head(s) \in WhiteSpace THEN TrimStart(Tail(s)) ELSE s

RECURSIVE TrimEnd(_)
TrimEnd(s) ==
    IF s = <<>> THEN s
    ELSE IF s[Len(s)] \in WhiteSpace THEN TrimEnd(SubSeq(s, 1, Len(s) - 1)) ELSE s

Trim(s) == TrimEnd(TrimStart(s))

LowerLetters == <<"a", "b", "c", "d", "e", "f", "g", "h", "i", "j", "k", "l", "m",
                  "n", "o", "p", "q", "r", "s", "t", "u", "v", "w", "x", "y", "z">>
UpperLetters == <<"A", "B", "C", "D", "E", "F", "G", "H", "I", "J", "K", "L", "M",
                  "N", "O", "P", "Q", "R", "S", "T", "U", "V", "W", "X", "Y", "Z">>
Digits == {"0", "1", "2", "3", "4", "5", "6", "7", "8", "9"}

Range(f) == {f[k] : k \in DOMAIN f}

LowerCh(ch) ==
    IF ch \in Range(UpperLetters)
    THEN LowerLetters[CHOOSE k \in 1..26 : UpperLetters[k] = ch]
    ELSE ch

UpperCh(ch) ==
    IF ch \in Range(LowerLetters)
    THEN UpperLetters[CHOOSE k \in 1..26 : LowerLetters[k] = ch]
    ELSE ch

ToLowerCase(s) == [k \in 1..Len(s) |-> LowerCh(s[k])]
ToUpperCase(s) == [k \in 1..Len(s) |-> UpperCh(s[k])]

IsLetter(ch) == ch \in Range(LowerLetters) \cup Range(UpperLetters)

(* /^[a-z]{2}(-[a-z0-9]+)?$/i *)
LooksLikeBcp47(s) ==
    /\ Len(s) >= 2
    /\ IsLetter(s[1])
    /\ IsLetter(s[2])
    /\ \/ Len(s) = 2
       \/ /\ Len(s) >= 4
          /\ s[3] = "-"
          /\ \A k \in 4..Len(s) : IsLetter(s[k]) \/ s[k] \in Digits

----------------------------------------------------------------------------
(* Program constants *)

s_count == <<"c", "o", "u", "n", "t">>
s_term_density == <<"t", "e", "r", "m", "_", "d", "e", "n", "s", "i", "t", "y">>
s_llm == <<"l", "l", "m">>
s_low == <<"l", "o", "w">>
s_medium == <<"m", "e", "d", "i", "u", "m">>
s_high == <<"h", "i", "g", "h">>
s_structure == <<"s", "t", "r", "u", "c", "t", "u", "r", "e">>
s_answerability == <<"a", "n", "s", "w", "e", "r", "a", "b", "i", "l", "i", "t", "y">>
s_neutrality == <<"n", "e", "u", "t", "r", "a", "l", "i", "t", "y">>
s_topical_focus == <<"t", "o", "p", "i", "c", "a", "l", "_", "f", "o", "c", "u", "s">>
s_entity_binding == <<"e", "n", "t", "i", "t", "y", "_", "b", "i", "n", "d", "i", "n", "g">>

ALLOWED_OPS == {s_count, s_term_density, s_llm}
ALLOWED_SEVERITIES == {s_low, s_medium, s_high}
ALLOWED_DIMENSIONS ==
    {s_structure, s_answerability, s_neutrality, s_topical_focus, s_entity_binding}
REQUIRED_WEIGHTS ==
    <<s_structure, s_answerability, s_neutrality, s_topical_focus, s_entity_binding>>

(* the tolerance 1e-4 passed to approxEquals, in units of 1/Scale *)
WeightsEps == Scale \div (10 * 10 * 10 * 10)

----------------------------------------------------------------------------
(* Diagnostics.  A path is [index, field]: checks[index].field, or the     *)
(* top-level field when index = TopLevel.  Messages keep the source text   *)
(* without the interpolated values; a warning also carries the keys it     *)
(* lists.                                                                  *)

Path(i, field) == [index |-> i, field |-> field]

fail(errors, file, path, message) ==
    Append(errors, [file |-> file, path |-> path, message |-> message])

Warning(file, field, message, keys) ==
    [file |-> file, field |-> field, message |-> message, keys |-> keys]

MsgParse == "YAML parse error"
MsgEmpty == "Ruleset is empty (YAML parsed to null)."
MsgNotObject == "Ruleset must be an object."
MsgWeights == "weights must be an object if provided."
MsgChecks == "checks must be an array."
MsgCheckObj == "check must be an object."
MsgIdReq == "id is required and must be a non-empty string."
MsgIdDup == "duplicate id"
MsgSeverity == "severity must be one of"
MsgDimension == "dimension must be one of"
MsgPenaltyNum == "penalty must be a number."
MsgPenaltyNeg == "penalty must be >= 0."
MsgMessage == "message must be a non-empty string."
MsgRule == "rule is required and must be an object."
MsgOp == "op must be one of"
MsgSelReq == "selector is required for op=count."
MsgSelUndef == "is not defined in schema/selectors.yml"
MsgMin == "min must be an integer >= 0."
MsgMax == "max must be an integer >= 0."
MsgRange == "min must be <= max"
MsgTerms == "terms must be a non-empty array of strings."
MsgDensity == "maxDensity must be a number between 0 and 1."
MsgRefReq == "promptRef is required for op=llm."
MsgRefMissing == "file not found"
MsgIntro == "introBlocks must be an integer >= 1."
WarnLangFormat == "unusual formatting; consider 'de' or 'en'."
WarnLangBcp == "doesn't look like a BCP-47 code."
WarnLangType == "should be a string"
WarnWeightsKeys == "missing or non-numeric keys"
WarnWeightsSum == "sum is, expected ~1.0"

----------------------------------------------------------------------------
(* Top-level checks of one ruleset document *)

(* language: the warnings pushed for ruleset.language *)
LanguageWarnings(warnings, file, ruleset) ==
    IF TypeOf(ruleset.language) = "string"
    THEN LET lang == ruleset.language.s
             normalized == ToLowerCase(Trim(lang))
             w1 == IF lang # normalized /\ lang # ToUpperCase(normalized)
                   THEN Append(warnings, Warning(file, "language", WarnLangFormat, <<>>))
                   ELSE warnings
         IN  IF ~LooksLikeBcp47(Trim(lang))
             THEN Append(w1, Warning(file, "language", WarnLangBcp, <<>>))
             ELSE w1
    ELSE IF ruleset.language # Undef
         THEN Append(warnings, Warning(file, "language", WarnLangType, <<>>))
         ELSE warnings

(* REQUIRED_WEIGHTS.filter((k) => typeof w[k] !== "number") *)
MissingWeights(w) ==
    LET keep(k) == TypeOf(w[REQUIRED_WEIGHTS[k]]) # "number"
        F[k \in 0..Len(REQUIRED_WEIGHTS)] ==
            IF k = 0 THEN <<>>
            ELSE IF keep(k) THEN Append(F[k - 1], REQUIRED_WEIGHTS[k]) ELSE F[k - 1]
    IN  F[Len(REQUIRED_WEIGHTS)]

(* REQUIRED_WEIGHTS.reduce((acc, k) => acc + Number(w[k]), 0) *)
WeightsSum(w) ==
    LET F[k \in 0..Len(REQUIRED_WEIGHTS)] ==
            IF k = 0 THEN Num(0) ELSE Plus(F[k - 1], w[REQUIRED_WEIGHTS[k]])
    IN  F[Len(REQUIRED_WEIGHTS)]

(* weights: the diagnostics of ruleset.weights, as [errors, warnings] *)
WeightsCheck(errors, warnings, file, ruleset) ==
    IF ruleset.weights.t = "undefined" THEN [errors |-> errors, warnings |-> warnings]
    ELSE IF ~isObject(ruleset.weights)
    THEN [errors |-> fail(errors, file, Path(TopLevel, "weights"), MsgWeights),
          warnings |-> warnings]
    ELSE LET w == ruleset.weights.w
             missing == MissingWeights(w)
         IN  [errors |-> errors,
              warnings |->
                  IF Len(missing) > 0
                  THEN Append(warnings, Warning(file, "weights", WarnWeightsKeys, missing))
                  ELSE IF ~approxEquals(WeightsSum(w), Whole(1), WeightsEps)
                       THEN Append(warnings, Warning(file, "weights", WarnWeightsSum, <<>>))
                       ELSE warnings]

(* checks array *)
ChecksArrayCheck(errors, file, ruleset) ==
    IF ~IsArray(ruleset.checks)
    THEN fail(errors, file, Path(TopLevel, "checks"), MsgChecks)
    ELSE errors

ChecksOf(ruleset) == IF IsArray(ruleset.checks) THEN ruleset.checks.items ELSE <<>>

----------------------------------------------------------------------------
(* Per-check checks: the body of the loop over checks, for the entry c at  *)
(* index i.  st is [errors, seenIds].                                      *)

IdCheckMutNoAdd(st, file, i, c) ==
    IF TypeOf(c.id) # "string" \/ Len(Trim(c.id.s)) = 0
    THEN [st EXCEPT !.errors = fail(@, file, Path(i, "id"), MsgIdReq)]
    ELSE [st EXCEPT !.errors = IF c.id.s \in st.seenIds
                                THEN fail(@, file, Path(i, "id"), MsgIdDup)
                                ELSE @]

IdCheck(st, file, i, c) ==
    IF TypeOf(c.id) # "string" \/ Len(Trim(c.id.s)) = 0
    THEN [st EXCEPT !.errors = fail(@, file, Path(i, "id"), MsgIdReq)]
    ELSE [errors |-> IF c.id.s \in st.seenIds
                     THEN fail(st.errors, file, Path(i, "id"), MsgIdDup)
                     ELSE st.errors,
          seenIds |-> st.seenIds \cup {c.id.s}]

SeverityDimensionCheck(errors, file, i, c) ==
    LET e1 == IF TypeOf(c.severity) # "string" \/ c.severity.s \notin ALLOWED_SEVERITIES
              THEN fail(errors, file, Path(i, "severity"), MsgSeverity)
              ELSE errors
    IN  IF TypeOf(c.dimension) # "string" \/ c.dimension.s \notin ALLOWED_DIMENSIONS
        THEN fail(e1, file, Path(i, "dimension"), MsgDimension)
        ELSE e1

PenaltyMessageCheck(errors, file, i, c) ==
    LET e1 == IF TypeOf(c.penalty) # "number" \/ IsNaN(c.penalty)
              THEN fail(errors, file, Path(i, "penalty"), MsgPenaltyNum)
              ELSE IF LessThan(c.penalty, 0)
                   THEN fail(errors, file, Path(i, "penalty"), MsgPenaltyNeg)
                   ELSE errors
    IN  IF TypeOf(c.message) # "string" \/ Len(Trim(c.message.s)) = 0
        THEN fail(e1, file, Path(i, "message"), MsgMessage)
        ELSE e1

(* op=count *)
CountMutShortCircuit(errors, file, i, rule, allowed) ==
    IF TypeOf(rule.selector) # "string" \/ Len(Trim(rule.selector.s)) = 0
    THEN fail(errors, file, Path(i, "rule.selector"), MsgSelReq)
    ELSE IF rule.selector.s \notin allowed
    THEN fail(errors, file, Path(i, "rule.selector"), MsgSelUndef)
    ELSE IF ~IsInteger(rule.min) \/ LessThan(rule.min, 0)
    THEN fail(errors, file, Path(i, "rule.min"), MsgMin)
    ELSE IF ~IsInteger(rule.max) \/ LessThan(rule.max, 0)
    THEN fail(errors, file, Path(i, "rule.max"), MsgMax)
    ELSE IF rule.min.n > rule.max.n
    THEN fail(errors, file, Path(i, "rule"), MsgRange)
    ELSE errors

CountCheck(errors, file, i, rule, allowed) ==
    LET selector == rule.selector
        e1 == IF TypeOf(selector) # "string" \/ Len(Trim(selector.s)) = 0
              THEN fail(errors, file, Path(i, "rule.selector"), MsgSelReq)
              ELSE IF selector.s \notin allowed
                   THEN fail(errors, file, Path(i, "rule.selector"), MsgSelUndef)
                   ELSE errors
        min == rule.min
        max == rule.max
        e2 == IF ~IsInteger(min) \/ LessThan(min, 0)
              THEN fail(e1, file, Path(i, "rule.min"), MsgMin)
              ELSE e1
        e3 == IF ~IsInteger(max) \/ LessThan(max, 0)
              THEN fail(e2, file, Path(i, "rule.max"), MsgMax)
              ELSE e2
    IN  IF IsInteger(min) /\ IsInteger(max) /\ min.n > max.n
        THEN fail(e3, file, Path(i, "rule"), MsgRange)
        ELSE e3

(* op=term_density *)
TermDensityCheck(errors, file, i, rule) ==
    LET terms == rule.terms
        maxDensity == rule.maxDensity
        e1 == IF \/ ~IsArray(terms)
                 \/ Len(terms.items) = 0
                 \/ \E k \in 1..Len(terms.items) :
                        \/ TypeOf(terms.items[k]) # "string"
                        \/ Len(Trim(terms.items[k].s)) = 0
              THEN fail(errors, file, Path(i, "rule.terms"), MsgTerms)
              ELSE errors
    IN  IF \/ TypeOf(maxDensity) # "number"
           \/ IsNaN(maxDensity)
           \/ LessThan(maxDensity, 0)
           \/ GreaterThan(maxDensity, 1)
        THEN fail(e1, file, Path(i, "rule.maxDensity"), MsgDensity)
        ELSE e1

(* op=llm: fs.access(ref) succeeds for the paths in exist *)
LlmCheck(errors, file, i, rule, exist) ==
    LET ref == rule.promptRef
        e1 == IF TypeOf(ref) # "string" \/ Len(Trim(ref.s)) = 0
              THEN fail(errors, file, Path(i, "rule.promptRef"), MsgRefReq)
              ELSE IF ref.s \notin exist
                   THEN fail(errors, file, Path(i, "rule.promptRef"), MsgRefMissing)
                   ELSE errors
        ib == rule.introBlocks
    IN  IF ib # Undef /\ (~IsInteger(ib) \/ LessThan(ib, 1))
        THEN fail(e1, file, Path(i, "rule.introBlocks"), MsgIntro)
        ELSE e1

(* rule, rule.op and the branch of the operator *)
RuleCheck(errors, file, i, c, allowed, exist) ==
    IF ~isObject(c.rule)
    THEN fail(errors, file, Path(i, "rule"), MsgRule)
    ELSE LET op == c.rule.op
         IN  IF TypeOf(op) # "string" \/ op.s \notin ALLOWED_OPS
             THEN fail(errors, file, Path(i, "rule.op"), MsgOp)
             ELSE IF op.s = s_count THEN CountCheck(errors, file, i, c.rule, allowed)
             ELSE IF op.s = s_term_density THEN TermDensityCheck(errors, file, i, c.rule)
             ELSE IF op.s = s_llm THEN LlmCheck(errors, file, i, c.rule, exist)
             ELSE errors

(* one iteration of the loop over checks *)
CheckEntry(st, file, i, c, allowed, exist) ==
    IF ~isObject(c)
    THEN [st EXCEPT !.errors = fail(@, file, Path(i, ""), MsgCheckObj)]
    ELSE LET s1 == IdCheck(st, file, i, c)
             e2 == SeverityDimensionCheck(s1.errors, file, i, c)
             e3 == PenaltyMessageCheck(e2, file, i, c)
         IN  [s1 EXCEPT !.errors = RuleCheck(e3, file, i, c, allowed, exist)]

(* for (let i = 0; i < checks.length; i++): checks[i] is checks[i + 1] here *)
RECURSIVE PerCheckFrom(_, _, _, _, _, _)
PerCheckFrom(st, file, i, checks, allowed, exist) ==
    IF i >= Len(checks) THEN st
    ELSE PerCheckFrom(CheckEntry(st, file, i, checks[i + 1], allowed, exist),
                      file, i + 1, checks, allowed, exist)

(* the loop with its continue statements turned into break *)
RECURSIVE PerCheckBreakFrom(_, _, _, _, _, _)
PerCheckBreakFrom(st, file, i, checks, allowed, exist) ==
    IF i >= Len(checks) THEN st
    ELSE LET c == checks[i + 1]
             next == CheckEntry(st, file, i, c, allowed, exist)
         IN  IF ~isObject(c) \/ ~isObject(c.rule)
                \/ TypeOf(c.rule.op) # "string" \/ c.rule.op.s \notin ALLOWED_OPS
             THEN next
             ELSE PerCheckBreakFrom(next, file, i + 1, checks, allowed, exist)

PerCheckMutBreak(errors, file, checks, allowed, exist) ==
    PerCheckBreakFrom([errors |-> errors, seenIds |-> {}],
                      file, 0, checks, allowed, exist).errors

PerCheck(errors, file, checks, allowed, exist) ==
    PerCheckFrom([errors |-> errors, seenIds |-> {}],
                 file, 0, checks, allowed, exist).errors

(* everything between the early print and the report: lines 95-340 *)
Validate(file, ruleset, allowed, exist) ==
    LET warnings1 == LanguageWarnings(<<>>, file, ruleset)
        tw == WeightsCheck(<<>>, warnings1, file, ruleset)
        e2 == ChecksArrayCheck(tw.errors, file, ruleset)
    IN  [errors |-> PerCheck(e2, file, ChecksOf(ruleset), allowed, exist),
         warnings |-> tw.warnings]

----------------------------------------------------------------------------
(* Loading and reporting *)

RootPath == Path(TopLevel, "(root)")

(* schema/selectors.yml is named file 0 on the console *)
SelectorsName == 0

(* try { selectorsDoc = YAML.parse(...) } catch { selectorsDoc = null } *)
NullSelectorsDoc == [t |-> "null", selectors |-> [t |-> "undefined", keys |-> {}]]

SelectorsDoc(content) == IF content.throws THEN NullSelectorsDoc ELSE content.doc

SelectorsInvalidMutOuterOnly(content) == ~isObject(SelectorsDoc(content))

SelectorsInvalid(content) ==
    \/ ~isObject(SelectorsDoc(content))
    \/ ~isObject(SelectorsDoc(content).selectors)

(* let ruleset = null; try { ruleset = YAML.parse(raw) } catch ... *)
NullRuleset ==
    [t |-> "null", language |-> Undef,
     weights |-> [t |-> "undefined", w |-> [k \in Range(REQUIRED_WEIGHTS) |-> Undef]],
     checks |-> [t |-> "undefined", items |-> <<>>]]

ParsedRuleset(content) == IF content.throws THEN NullRuleset ELSE content.doc

(* the errors recorded while reading and parsing one file *)
LoadErrors(file, content) ==
    LET ruleset == ParsedRuleset(content)
        e1 == IF content.throws THEN fail(<<>>, file, RootPath, MsgParse) ELSE <<>>
    IN  IF ruleset.t = "null" THEN fail(e1, file, RootPath, MsgEmpty)
        ELSE IF ~isObject(ruleset) THEN fail(e1, file, RootPath, MsgNotObject)
        ELSE e1

Line(stream, kind, file, path, message) ==
    [stream |-> stream, kind |-> kind, file |-> file, path |-> path, message |-> message]

FailLine(e) == Line("error", "FAIL", e.file, e.path, e.message)
WarnLine(w) == Line("warn", "WARN", w.file, Path(TopLevel, w.field), w.message)
OkLine(file) == Line("log", "OK", file, Path(TopLevel, ""), "semantic")

(* for (const e of errors) console.error(...) *)
PrintErrors(out, errors) == out \o [k \in 1..Len(errors) |-> FailLine(errors[k])]

PrintWarnings(out, warnings) == out \o [k \in 1..Len(warnings) |-> WarnLine(warnings[k])]

(* a report that counts warnings as failures *)
ReportMutWarningsFail(out, file, errors, warnings) ==
    LET o1 == PrintWarnings(out, warnings)
    IN  IF Len(errors) + Len(warnings) > 0
        THEN PrintErrors(o1, errors)
        ELSE Append(o1, OkLine(file))

(* a report that prints the final status before the warnings *)
ReportMutStatusFirst(out, file, errors, warnings) ==
    LET o1 == IF Len(errors) > 0 THEN PrintErrors(out, errors) ELSE Append(out, OkLine(file))
    IN  PrintWarnings(o1, warnings)

(* Print warnings, print final status *)
Report(out, file, errors, warnings) ==
    LET o1 == PrintWarnings(out, warnings)
    IN  IF Len(errors) > 0 THEN PrintErrors(o1, errors) ELSE Append(o1, OkLine(file))

FailedAnyMutReset(flag, errors) == Len(errors) > 0

(* if (errors.length > 0) failedAny = true *)
FailedAnyAfter(flag, errors) == IF Len(errors) > 0 THEN TRUE ELSE flag

----------------------------------------------------------------------------
(* The explored inputs *)

SeqsUpTo(S, n) == UNION {[1..k -> S] : k \in 0..n}

h1 == <<"h", "1">>
para == <<"p">>
blank == <<" ">>

SelectorsObject(keys) ==
    [throws |-> FALSE,
     doc |-> [t |-> "object", selectors |-> [t |-> "object", keys |-> keys]]]

SelectorsOther(tag, inner) ==
    [throws |-> FALSE, doc |-> [t |-> tag, selectors |-> [t |-> inner, keys |-> {}]]]

GoodSelectors == SelectorsObject({h1, para})

SelectorFiles ==
    {[throws |-> TRUE, doc |-> NullSelectorsDoc],
     SelectorsOther("null", "undefined"),
     SelectorsOther("string", "undefined"),
     SelectorsOther("array", "undefined"),
     SelectorsOther("object", "undefined"),
     SelectorsOther("object", "null"),
     SelectorsOther("object", "array"),
     SelectorsOther("object", "string"),
     SelectorsObject({}),
     SelectorsObject({h1, blank}),
     GoodSelectors}

NoWeights == [t |-> "undefined", w |-> [k \in Range(REQUIRED_WEIGHTS) |-> Undef]]
WeightsOf(tag) == [NoWeights EXCEPT !.t = tag]
WeightsObject(w) == [t |-> "object", w |-> w]

Checks(items) == [t |-> "array", items |-> items]
NoChecks(tag) == [t |-> tag, items |-> <<>>]

Ruleset(language, weights, checks) ==
    [t |-> "object", language |-> language, weights |-> weights, checks |-> checks]

Parsed(doc) == [throws |-> FALSE, doc |-> doc]
Unreadable == [throws |-> TRUE, doc |-> NullRuleset]

BaseRule ==
    [t |-> "object", op |-> Undef, selector |-> Undef, min |-> Undef, max |-> Undef,
     terms |-> [t |-> "undefined", items |-> <<>>], maxDensity |-> Undef,
     promptRef |-> Undef, introBlocks |-> Undef]

RuleOf(tag) == [BaseRule EXCEPT !.t = tag]
CountRule(selector, min, max) ==
    [BaseRule EXCEPT !.op = Str(s_count), !.selector = selector, !.min = min, !.max = max]
TermDensityRule(terms, maxDensity) ==
    [BaseRule EXCEPT !.op = Str(s_term_density), !.terms = terms, !.maxDensity = maxDensity]
LlmRule(promptRef, introBlocks) ==
    [BaseRule EXCEPT !.op = Str(s_llm), !.promptRef = promptRef, !.introBlocks = introBlocks]

GoodRule == CountRule(Str(h1), Whole(0), Whole(3))

Entry(id, severity, dimension, penalty, message, rule) ==
    [t |-> "object", id |-> id, severity |-> severity, dimension |-> dimension,
     penalty |-> penalty, message |-> message, rule |-> rule]

EntryOf(tag) == [Entry(Undef, Undef, Undef, Undef, Undef, RuleOf("undefined")) EXCEPT !.t = tag]

GoodEntry(id) == Entry(Str(id), Str(s_low), Str(s_structure), Whole(1), Str(<<"m">>), GoodRule)
BadEntry(id) == Entry(Str(id), Str(<<"x">>), Undef, NaN, Str(blank), GoodRule)

(* one entry of V among at most MaxChecks - 1 entries of F *)
Around(V, F) ==
    LET S == SeqsUpTo(F, MaxChecks - 1)
        P == {pp \in S \X S : Len(pp[1]) + Len(pp[2]) <= MaxChecks - 1}
    IN  {pp[1] \o <<v>> \o pp[2] : v \in V, pp \in P}

OneFile(selectors, doc, exist) ==
    [selectors |-> selectors, tree |-> <<Parsed(doc)>>, existing |-> exist]

(* whole runs: every selector file, up to MaxFiles coarse ruleset files *)
CoarseFiles ==
    {Unreadable,
     Parsed(NullRuleset),
     Parsed([NullRuleset EXCEPT !.t = "string"]),
     Parsed([NullRuleset EXCEPT !.t = "array"]),
     Parsed(Ruleset(Undef, NoWeights, Checks(<<>>))),
     Parsed(Ruleset(Str(<<" ", "D", "E">>), WeightsObject(NoWeights.w), Checks(<<>>))),
     Parsed(Ruleset(Whole(7), WeightsOf("array"), NoChecks("undefined"))),
     Parsed(Ruleset(Str(<<"d", "e">>), NoWeights, Checks(<<GoodEntry(h1), EntryOf("null")>>)))}

RunInputs ==
    {[selectors |-> sf, tree |-> t, existing |-> {}] :
        sf \in SelectorFiles, t \in SeqsUpTo(CoarseFiles, MaxFiles)}

(* top-level fields *)
Languages ==
    {Undef, Null, Whole(7), Str(<<"d", "e">>), Str(<<"D", "E">>), Str(<<"D", "e">>),
     Str(<<" ", "d", "e">>), Str(<<"d", "e", "-", "A", "T">>), Str(<<"d", "e", "-">>),
     Str(<<"D", "e", "-">>), Str(<<"d", "e", "u">>), Str(<<>>)}

WeightValues ==
    {Undef, Str(<<"1">>), NaN, Num(Scale \div 5), Num(Scale \div 5 + WeightsEps),
     Num(Scale \div 5 - WeightsEps)}

WeightsFields ==
    {WeightsObject(w) : w \in [Range(REQUIRED_WEIGHTS) -> WeightValues]}
    \cup {NoWeights, WeightsOf("null"), WeightsOf("array"), WeightsOf("string"),
          WeightsOf("number")}

WeightInputs ==
    {OneFile(GoodSelectors, Ruleset(Str(<<"D", "e">>), wf, Checks(<<>>)), {}) :
        wf \in WeightsFields}

LanguageInputs ==
    {OneFile(GoodSelectors, Ruleset(l, wf, c), {}) :
        l \in Languages,
        wf \in {NoWeights, WeightsOf("array"), WeightsObject(NoWeights.w)},
        c \in {Checks(<<>>), NoChecks("undefined"), NoChecks("object")}}

(* ids *)
IdValues ==
    {Whole(5), Str(<<>>), Str(blank), Str(<<"a">>), Str(<<"b">>), Str(<<" ", "a">>)}

IdEntries ==
    {[GoodEntry(<<>>) EXCEPT !.id = id, !.severity = sev] :
        id \in IdValues, sev \in {Str(s_low), Str(<<"x">>)}}

IdInputs ==
    {OneFile(GoodSelectors, Ruleset(Undef, NoWeights, Checks(items)), {}) :
        items \in SeqsUpTo(IdEntries, MaxChecks)}

(* the fields every entry has, against a rule that is or is not usable *)
CommonEntries ==
    {Entry(id, sev, dim, pen, msg, rule) :
        id \in {Undef, Str(<<"a">>)},
        sev \in {Undef, Str(s_high), Str(<<"x">>)},
        dim \in {Str(s_neutrality), Str(<<"x">>)},
        pen \in {Str(<<"1">>), NaN, Whole(0 - 1), Whole(0)},
        msg \in {Undef, Str(blank), Str(<<"m">>)},
        rule \in {RuleOf("undefined"), BaseRule,
                  [BaseRule EXCEPT !.op = Str(<<"x">>)], GoodRule}}

Fillers ==
    {EntryOf("string"),
     [GoodEntry(<<"z">>) EXCEPT !.penalty = Whole(0 - 1), !.rule = [BaseRule EXCEPT !.op = Whole(1)]]}

CommonInputs ==
    {OneFile(GoodSelectors, Ruleset(Undef, NoWeights, Checks(items)), {}) :
        items \in Around(CommonEntries, Fillers)}

(* rule bodies *)
Selectors ==
    {Undef, Whole(1), Str(<<>>), Str(blank), Str(h1), Str(<<"z">>), Str(<<" ", "p">>)}

Limits ==
    {Undef, Str(<<"3">>), NaN, Whole(0 - 1), Whole(0), Whole(3), Whole(5),
     Num(Scale + Scale \div 2)}

TermsValues ==
    {[t |-> "undefined", items |-> <<>>],
     [t |-> "string", items |-> <<>>],
     [t |-> "array", items |-> <<>>],
     [t |-> "array", items |-> <<Str(<<"a">>)>>],
     [t |-> "array", items |-> <<Str(<<"a">>), Str(blank)>>],
     [t |-> "array", items |-> <<Whole(1), Str(<<"a">>)>>]}

Densities ==
    {Undef, Str(<<"1">>), NaN, Num(0 - 1), Whole(0), Num(Scale \div 2), Whole(1),
     Num(Scale + 1)}

promptA == <<"a", ".", "m", "d">>
promptB == <<"b", ".", "m", "d">>

PromptRefs == {Undef, Whole(1), Str(blank), Str(promptA), Str(promptB)}

IntroBlocks == {Undef, Str(<<"1">>), NaN, Whole(0), Whole(1), Whole(2), Num(Scale + Scale \div 2)}

CountRules == {CountRule(sel, min, max) : sel \in Selectors, min \in Limits, max \in Limits}

OtherRules ==
    {TermDensityRule(terms, d) : terms \in TermsValues, d \in Densities}
    \cup {LlmRule(ref, ib) : ref \in PromptRefs, ib \in IntroBlocks}
    \cup {RuleOf("undefined"), RuleOf("null"), RuleOf("array"), RuleOf("string"),
          BaseRule, [BaseRule EXCEPT !.op = Whole(1)],
          [BaseRule EXCEPT !.op = Str(<<"x">>)],
          [BaseRule EXCEPT !.op = Str(<<" ">> \o s_count)]}

RuleEntries(rules) ==
    {[e EXCEPT !.rule = rule] : e \in {GoodEntry(<<"a">>), BadEntry(<<"a">>)}, rule \in rules}

CountInputs ==
    {OneFile(sf, Ruleset(Undef, NoWeights, Checks(items)), {promptA}) :
        sf \in {GoodSelectors, SelectorsObject({h1, blank})},
        items \in Around(RuleEntries(CountRules), {GoodEntry(<<"z">>)})}

OtherRuleInputs ==
    {OneFile(GoodSelectors, Ruleset(Undef, NoWeights, Checks(items)), {promptA}) :
        items \in Around(RuleEntries(OtherRules), {GoodEntry(<<"z">>)})}

----------------------------------------------------------------------------
(* The script *)

InitWith(inp) ==
    /\ selectorsFile = inp.selectors
    /\ tree = inp.tree
    /\ existing = inp.existing
    /\ pc = "load"
    /\ allowedSelectors = {}
    /\ rulesetFiles = <<>>
    /\ fileIdx = 0
    /\ failedAny = FALSE
    /\ console = <<>>
    /\ exitCode = NoExit
    /\ results = <<>>

Init ==
    \/ \E inp \in RunInputs : InitWith(inp)
    \/ \E inp \in WeightInputs : InitWith(inp)
    \/ \E inp \in LanguageInputs : InitWith(inp)
    \/ \E inp \in IdInputs : InitWith(inp)
    \/ \E inp \in CommonInputs : InitWith(inp)
    \/ \E inp \in CountInputs : InitWith(inp)
    \/ \E inp \in OtherRuleInputs : InitWith(inp)

Inputs_unchanged == UNCHANGED <<selectorsFile, tree, existing>>

(* lines 40-54: the selector table is missing, empty or invalid *)
LoadSelectorsFail ==
    /\ pc = "load"
    /\ SelectorsInvalid(selectorsFile)
    /\ console' = Append(console,
                         Line("error", "FAIL", SelectorsName, RootPath, "missing/empty/invalid"))
    /\ exitCode' = 1
    /\ pc' = "done"
    /\ UNCHANGED <<allowedSelectors, rulesetFiles, fileIdx, failedAny, results>>
    /\ Inputs_unchanged

(* lines 40-56 *)
LoadSelectorsOk ==
    /\ pc = "load"
    /\ ~SelectorsInvalid(selectorsFile)
    /\ allowedSelectors' = SelectorsDoc(selectorsFile).selectors.keys
    /\ pc' = "find"
    /\ UNCHANGED <<rulesetFiles, fileIdx, failedAny, console, exitCode, results>>
    /\ Inputs_unchanged

(* lines 59-64: no file matched *)
FindNone ==
    /\ pc = "find"
    /\ Len(tree) = 0
    /\ rulesetFiles' = <<>>
    /\ console' = Append(console,
                         Line("log", "OK", SelectorsName, Path(TopLevel, ""), "no files matched"))
    /\ exitCode' = 0
    /\ pc' = "done"
    /\ UNCHANGED <<allowedSelectors, fileIdx, failedAny, results>>
    /\ Inputs_unchanged

(* lines 59-66 *)
FindSome ==
    /\ pc = "find"
    /\ Len(tree) > 0
    /\ rulesetFiles' = [k \in 1..Len(tree) |-> k]
    /\ failedAny' = FALSE
    /\ pc' = "loop"
    /\ UNCHANGED <<allowedSelectors, fileIdx, console, exitCode, results>>
    /\ Inputs_unchanged

(* lines 68-93: an iteration that ends at the early print *)
FileBroken ==
    /\ pc = "loop"
    /\ fileIdx < Len(rulesetFiles)
    /\ LET file == rulesetFiles[fileIdx + 1]
           errors == LoadErrors(file, tree[file])
       IN  /\ Len(errors) > 0
           /\ failedAny' = TRUE
           /\ console' = PrintErrors(console, errors)
           /\ results' = Append(results, [file |-> file, validated |-> FALSE,
                                          errors |-> errors, warnings |-> <<>>])
    /\ fileIdx' = fileIdx + 1
    /\ UNCHANGED <<pc, allowedSelectors, rulesetFiles, exitCode>>
    /\ Inputs_unchanged

(* lines 68-353: an iteration that validates the document *)
FileValidated ==
    /\ pc = "loop"
    /\ fileIdx < Len(rulesetFiles)
    /\ LET file == rulesetFiles[fileIdx + 1]
           loaded == LoadErrors(file, tree[file])
           v == Validate(file, ParsedRuleset(tree[file]), allowedSelectors, existing)
       IN  /\ Len(loaded) = 0
           /\ failedAny' = FailedAnyAfter(failedAny, v.errors)
           /\ console' = Report(console, file, v.errors, v.warnings)
           /\ results' = Append(results, [file |-> file, validated |-> TRUE,
                                          errors |-> v.errors, warnings |-> v.warnings])
    /\ fileIdx' = fileIdx + 1
    /\ UNCHANGED <<pc, allowedSelectors, rulesetFiles, exitCode>>
    /\ Inputs_unchanged

(* line 355 *)
Exit ==
    /\ pc = "loop"
    /\ fileIdx = Len(rulesetFiles)
    /\ exitCode' = IF failedAny THEN 1 ELSE 0
    /\ pc' = "done"
    /\ UNCHANGED <<allowedSelectors, rulesetFiles, fileIdx, failedAny, console, results>>
    /\ Inputs_unchanged

Next ==
    \/ LoadSelectorsFail
    \/ LoadSelectorsOk
    \/ FindNone
    \/ FindSome
    \/ FileBroken
    \/ FileValidated
    \/ Exit

Spec == Init /\ [][Next]_vars

----------------------------------------------------------------------------
(* Vocabulary of the properties *)

Processed == 1..Len(results)

Validated == {k \in Processed : results[k].validated}

DocOf(k) == tree[results[k].file].doc

ItemsOf(k) == IF DocOf(k).checks.t = "array" THEN DocOf(k).checks.items ELSE <<>>

(* the selector table is an object holding an object-valued selectors key *)
TableLoads ==
    /\ ~selectorsFile.throws
    /\ selectorsFile.doc.t = "object"
    /\ selectorsFile.doc.selectors.t = "object"

SomeFileFailed == \E k \in Processed : Len(results[k].errors) > 0

HasError(errs, i, field, msg) ==
    \E p \in DOMAIN errs : errs[p].path = Path(i, field) /\ errs[p].message = msg

HasErrorAt(errs, i, field) == \E p \in DOMAIN errs : errs[p].path = Path(i, field)

NumErrors(errs, i, field, msg) ==
    Cardinality({p \in DOMAIN errs : errs[p].path = Path(i, field) /\ errs[p].message = msg})

ErrorsOfIndex(errs, i) == SelectSeq(errs, LAMBDA e : e.path.index = i)

LinesOf(file, kind) == SelectSeq(console, LAMBDA l : l.file = file /\ l.kind = kind)

----------------------------------------------------------------------------
(* C1: when the selector table loads, the exit code is 1 if and only if    *)
(* some processed file recorded an error, and 0 otherwise (also when no    *)
(* file matched); every matched file is processed, and while the loop      *)
(* runs the failure flag is set exactly when a file processed so far       *)
(* recorded an error, so a later passing file never resets it.             *)
C1_ExitCodeIffSomeFileFailed ==
    /\ (pc = "done" /\ TableLoads) =>
          /\ exitCode = IF SomeFileFailed THEN 1 ELSE 0
          /\ Len(results) = Len(tree)
    /\ pc = "loop" => (failedAny <=> SomeFileFailed)

C1_Witness ==
    /\ pc = "done"
    /\ TableLoads
    /\ Len(results) = 2
    /\ Len(results[1].errors) > 0
    /\ Len(results[2].errors) = 0
    /\ exitCode = 1

(* C2: a file with zero errors is reported passed (one OK line, no FAIL    *)
(* line) however many warnings it has, and does not set the failure flag;  *)
(* a file with at least one error is reported failed.                      *)
C2_WarningsNeverChangeVerdict ==
    /\ \A k \in Processed :
          LET r == results[k]
          IN  /\ Len(r.errors) = 0 =>
                    /\ Len(LinesOf(r.file, "OK")) = 1
                    /\ Len(LinesOf(r.file, "FAIL")) = 0
              /\ Len(r.errors) > 0 =>
                    /\ Len(LinesOf(r.file, "OK")) = 0
                    /\ Len(LinesOf(r.file, "FAIL")) > 0
                    /\ failedAny
              /\ Len(LinesOf(r.file, "WARN")) = Len(r.warnings)
    /\ (\A k \in Processed : Len(results[k].errors) = 0) => ~failedAny

C2_Witness ==
    \E k \in Processed :
        /\ Len(results[k].warnings) >= 3
        /\ Len(results[k].errors) = 0
        /\ Len(LinesOf(results[k].file, "OK")) = 1
        /\ ~failedAny

(* C3: a file whose load fails (read or parse error, null document, or a   *)
(* top-level value that is not an object) records exactly one diagnostic,  *)
(* at the root path, is reported failed, is not validated, and the other   *)
(* files are still processed.                                              *)
C3_LoadFailureSingleRootDiagnostic ==
    /\ \A k \in Processed :
          LET r == results[k]
              content == tree[r.file]
          IN  (content.throws \/ content.doc.t # "object") =>
                  /\ Len(r.errors) = 1
                  /\ r.errors[1].path = RootPath
                  /\ ~r.validated
                  /\ Len(r.warnings) = 0
                  /\ Len(LinesOf(r.file, "FAIL")) = 1
                  /\ failedAny
    /\ (pc = "done" /\ TableLoads) => Len(results) = Len(tree)

(* C4: when the selector table cannot be read or parsed, or is not an      *)
(* object holding an object-valued selectors key, the run exits with code  *)
(* 1 without discovering, reading, validating or reporting any ruleset     *)
(* file.                                                                   *)
C4_SelectorFailureExitsBeforeFiles ==
    ~TableLoads =>
        /\ pc \in {"load", "done"}
        /\ rulesetFiles = <<>>
        /\ fileIdx = 0
        /\ results = <<>>
        /\ pc = "done" =>
              /\ exitCode = 1
              /\ \A p \in DOMAIN console :
                    console[p].file = SelectorsName /\ console[p].kind = "FAIL"

C4_Witness ==
    /\ pc = "done"
    /\ ~selectorsFile.throws
    /\ selectorsFile.doc.t = "object"
    /\ selectorsFile.doc.selectors.t = "null"
    /\ Len(tree) > 0
    /\ exitCode = 1
    /\ Len(console) = 1

(* the entries of items that are objects and carry the id v *)
Carriers(items, v) ==
    {i \in DOMAIN items : items[i].t = "object" /\ items[i].id = Str(v)}

(* the entries at which a duplicate-id error for one of the carriers is recorded *)
DuplicatePositions(errs, carriers) ==
    {p \in DOMAIN errs :
        /\ errs[p].path.field = "id"
        /\ errs[p].message = MsgIdDup
        /\ errs[p].path.index + 1 \in carriers}

First(S) == CHOOSE i \in S : \A j \in S : i <= j

SeverityValid(c) == c.severity.t = "string" /\ c.severity.s \in ALLOWED_SEVERITIES

DuplicatesFlagged(k, v) ==
    LET items == ItemsOf(k)
        errs == results[k].errors
        carriers == Carriers(items, v)
        dups == DuplicatePositions(errs, carriers)
    IN  carriers # {} =>
            /\ Cardinality(dups) = Cardinality(carriers) - 1
            /\ {errs[p].path.index + 1 : p \in dups} = carriers \ {First(carriers)}
            /\ \A i \in carriers :
                  ~SeverityValid(items[i]) => HasErrorAt(errs, i - 1, "severity")

StringIds(k) ==
    {ItemsOf(k)[i].id.s : i \in {j \in DOMAIN ItemsOf(k) :
        ItemsOf(k)[j].t = "object" /\ ItemsOf(k)[j].id.t = "string"}}

(* C5 as stated: every id that is a non-empty string carried by k entries  *)
(* gets exactly k-1 duplicate-id errors, at the second and later           *)
(* occurrences, and the other fields of those entries are still checked.   *)
C5_Original_NonEmptyIds ==
    \A k \in Validated :
        \A v \in StringIds(k) : Len(v) > 0 => DuplicatesFlagged(k, v)

(* C5: every id that is a string with a character other than whitespace,   *)
(* carried by k >= 1 object entries (exact string equality), gets exactly  *)
(* k-1 duplicate-id errors, at the indices of the second and later         *)
(* occurrences and never at the first, and the other fields of those       *)
(* entries are still checked.                                              *)
C5_DuplicateIdsFlagged ==
    \A k \in Validated :
        \A v \in StringIds(k) : Len(Trim(v)) > 0 => DuplicatesFlagged(k, v)

C5_Witness ==
    \E k \in Validated :
        LET items == ItemsOf(k)
            errs == results[k].errors
        IN  /\ Len(items) = 3
            /\ \A i \in 1..3 : items[i].t = "object" /\ items[i].id = Str(<<"a">>)
            /\ ~HasError(errs, 0, "id", MsgIdDup)
            /\ HasError(errs, 1, "id", MsgIdDup)
            /\ HasError(errs, 2, "id", MsgIdDup)
            /\ HasErrorAt(errs, 2, "severity")

(* the entries of a validated document whose rule has op = "count" *)
CountEntries(k) ==
    {i \in DOMAIN ItemsOf(k) :
        /\ ItemsOf(k)[i].t = "object"
        /\ ItemsOf(k)[i].rule.t = "object"
        /\ ItemsOf(k)[i].rule.op = Str(s_count)}

RangeErrorAsSpecified(k, i) ==
    LET rule == ItemsOf(k)[i].rule
        errs == results[k].errors
    IN  /\ HasError(errs, i - 1, "rule", MsgRange)
            <=> (IsInteger(rule.min) /\ IsInteger(rule.max) /\ rule.min.n > rule.max.n)
        /\ NumErrors(errs, i - 1, "rule", MsgRange) <= 1

(* usable tells which selector values count as present *)
SelectorErrorAsSpecified(k, i, usable) ==
    LET selector == ItemsOf(k)[i].rule.selector
        errs == results[k].errors
        required == HasError(errs, i - 1, "rule.selector", MsgSelReq)
        undefined == HasError(errs, i - 1, "rule.selector", MsgSelUndef)
    IN  /\ required <=> ~usable
        /\ undefined <=> (usable /\ selector.s \notin allowedSelectors)
        /\ ~(required /\ undefined)
        /\ Len(SelectSeq(errs, LAMBDA e : e.path = Path(i - 1, "rule.selector"))) <= 1

(* C6 as stated: the range error appears exactly when min and max are      *)
(* integers with min > max; the selector error is "required" exactly when  *)
(* the selector is not a non-empty string and "not defined" exactly when   *)
(* it is one that is no key of the selector table.                         *)
C6_Original_NonEmptySelector ==
    \A k \in Validated :
        \A i \in CountEntries(k) :
            LET selector == ItemsOf(k)[i].rule.selector
            IN  /\ RangeErrorAsSpecified(k, i)
                /\ SelectorErrorAsSpecified(k, i,
                       selector.t = "string" /\ Len(selector.s) > 0)

(* C6: for an entry with op = "count" the range error appears exactly when *)
(* min and max are integers with min > max, whatever else was recorded;    *)
(* the selector error is "required" exactly when the selector is not a     *)
(* string or has only whitespace, and "not defined" exactly when it is a   *)
(* string with another character that is no key of the selector table;     *)
(* never both.                                                             *)
C6_CountChecksAdditive ==
    \A k \in Validated :
        \A i \in CountEntries(k) :
            LET selector == ItemsOf(k)[i].rule.selector
            IN  /\ RangeErrorAsSpecified(k, i)
                /\ SelectorErrorAsSpecified(k, i,
                       selector.t = "string" /\ Len(Trim(selector.s)) > 0)

C6_Witness ==
    \E k \in Validated :
        \E i \in CountEntries(k) :
            LET rule == ItemsOf(k)[i].rule
                errs == results[k].errors
            IN  /\ rule.min = Whole(5)
                /\ rule.max = Whole(0 - 1)
                /\ HasError(errs, i - 1, "rule.selector", MsgSelUndef)
                /\ HasError(errs, i - 1, "rule.max", MsgMax)
                /\ HasError(errs, i - 1, "rule", MsgRange)

(* the weights warnings of a validated file *)
WeightsWarnings(k) == SelectSeq(results[k].warnings, LAMBDA w : w.field = "weights")

NonNumericKeys(w) == {key \in Range(REQUIRED_WEIGHTS) : w[key].t # "number"}

SumUnits(w) ==
    LET F[k \in 0..Len(REQUIRED_WEIGHTS)] ==
            IF k = 0 THEN 0 ELSE F[k - 1] + w[REQUIRED_WEIGHTS[k]].n
    IN  F[Len(REQUIRED_WEIGHTS)]

SumIsNaN(w) == \E key \in Range(REQUIRED_WEIGHTS) : w[key].nan

(* the absolute difference between the sum and 1.0 exceeds 1e-4 *)
DifferenceExceeds(w) == ~SumIsNaN(w) /\ Abs(SumUnits(w) - Scale) > WeightsEps

(* sumWarns tells, for complete numeric weights, whether the sum warning is due *)
WeightsAsSpecified(k, sumWarns) ==
    LET wf == DocOf(k).weights
        errs == results[k].errors
        ww == WeightsWarnings(k)
    IN  /\ wf.t = "object" =>
              /\ ~HasErrorAt(errs, TopLevel, "weights")
              /\ Len(ww) <= 1
              /\ NonNumericKeys(wf.w) # {} =>
                    /\ Len(ww) = 1
                    /\ ww[1].message = WarnWeightsKeys
                    /\ Range(ww[1].keys) = NonNumericKeys(wf.w)
                    /\ Len(ww[1].keys) = Cardinality(NonNumericKeys(wf.w))
              /\ NonNumericKeys(wf.w) = {} =>
                    /\ Len(ww) = 1 <=> sumWarns
                    /\ Len(ww) = 1 => ww[1].message = WarnWeightsSum
        /\ wf.t \notin {"undefined", "object"} =>
              /\ Len(SelectSeq(errs, LAMBDA e : e.path = Path(TopLevel, "weights"))) = 1
              /\ Len(ww) = 0
        /\ wf.t = "undefined" =>
              /\ ~HasErrorAt(errs, TopLevel, "weights")
              /\ Len(ww) = 0

(* C7 as stated: for complete numeric weights the sum warning is emitted   *)
(* exactly when the absolute difference between the sum and 1.0 exceeds    *)
(* 1e-4.                                                                   *)
C7_Original_DifferenceExceeds ==
    \A k \in Validated : WeightsAsSpecified(k, DifferenceExceeds(DocOf(k).weights.w))

SumOutsideTolerance(w) == SumIsNaN(w) \/ Abs(SumUnits(w) - Scale) > WeightsEps

(* C7: weights that are an object never produce an error; a missing key or *)
(* a key whose value is not of type number gives exactly one combined      *)
(* warning listing those keys and no sum warning; otherwise exactly one    *)
(* sum warning is emitted if and only if the sum is NaN or differs from    *)
(* 1.0 by more than 1e-4.  Weights that are present and not an object give *)
(* exactly one error at path weights.                                      *)
C7_WeightsWarnOnly ==
    \A k \in Validated : WeightsAsSpecified(k, SumOutsideTolerance(DocOf(k).weights.w))

C7_Witness ==
    \E k \in Validated :
        LET wf == DocOf(k).weights
        IN  /\ wf.t = "object"
            /\ NonNumericKeys(wf.w) = {}
            /\ ~SumIsNaN(wf.w)
            /\ SumUnits(wf.w) = Scale + 2 * WeightsEps
            /\ Len(WeightsWarnings(k)) = 1
            /\ WeightsWarnings(k)[1].message = WarnWeightsSum
            /\ Len(results[k].errors) = 0

(* C8: the console holds the files one after the other in discovery order; *)
(* within a file every WARN line precedes every FAIL or OK line; a file    *)
(* ends with its FAIL lines, one per recorded error in the order recorded, *)
(* or with exactly one OK line, never both.                                *)
C8_ConsoleOrderedPerFile ==
    /\ \A p, q \in DOMAIN console :
          p < q =>
              /\ console[p].file <= console[q].file
              /\ console[p].file = console[q].file =>
                    ~(console[p].kind \in {"FAIL", "OK"} /\ console[q].kind = "WARN")
    /\ \A k \in Processed :
          LET r == results[k]
              fails == LinesOf(r.file, "FAIL")
              oks == LinesOf(r.file, "OK")
          IN  /\ r.file = rulesetFiles[k]
              /\ Len(fails) = Len(r.errors)
              /\ \A p \in DOMAIN fails :
                    /\ fails[p].path = r.errors[p].path
                    /\ fails[p].message = r.errors[p].message
              /\ Len(oks) = IF Len(r.errors) = 0 THEN 1 ELSE 0
              /\ LET warned == LinesOf(r.file, "WARN")
                 IN  /\ Len(warned) = Len(r.warnings)
                     /\ \A p \in DOMAIN warned : warned[p].message = r.warnings[p].message
    /\ \A p \in DOMAIN console :
          console[p].file # SelectorsName => console[p].file \in {results[k].file : k \in Processed}

C8_Witness ==
    /\ Len(results) = 2
    /\ Len(results[1].warnings) > 0
    /\ Len(results[1].errors) > 1
    /\ Len(results[2].warnings) > 0
    /\ Len(results[2].errors) = 0
    /\ console[Len(console)].kind = "OK"
    /\ console[1].kind = "WARN"

RuleFields ==
    {"rule", "rule.op", "rule.selector", "rule.min", "rule.max", "rule.terms",
     "rule.maxDensity", "rule.promptRef", "rule.introBlocks"}

BranchFields(op) ==
    IF op = s_count THEN {"rule.selector", "rule.min", "rule.max", "rule"}
    ELSE IF op = s_term_density THEN {"rule.terms", "rule.maxDensity"}
    ELSE {"rule.promptRef", "rule.introBlocks"}

BranchMessages(op) ==
    IF op = s_count THEN {MsgSelReq, MsgSelUndef, MsgMin, MsgMax, MsgRange}
    ELSE IF op = s_term_density THEN {MsgTerms, MsgDensity}
    ELSE {MsgRefReq, MsgRefMissing, MsgIntro}

NonBlank(x) == x.t = "string" /\ Len(Trim(x.s)) > 0

(* the checks every object entry gets, whatever its rule *)
CommonChecksRan(k, i) ==
    LET items == ItemsOf(k)
        c == items[i]
        errs == results[k].errors
    IN  /\ HasErrorAt(errs, i - 1, "id")
            <=> \/ ~NonBlank(c.id)
                \/ \E j \in 1..(i - 1) : items[j].t = "object" /\ items[j].id = c.id
        /\ HasErrorAt(errs, i - 1, "severity") <=> ~SeverityValid(c)
        /\ HasErrorAt(errs, i - 1, "dimension")
            <=> ~(c.dimension.t = "string" /\ c.dimension.s \in ALLOWED_DIMENSIONS)
        /\ HasErrorAt(errs, i - 1, "penalty")
            <=> ~(c.penalty.t = "number" /\ ~c.penalty.nan /\ c.penalty.n >= 0)
        /\ HasErrorAt(errs, i - 1, "message") <=> ~NonBlank(c.message)

OpValid(rule) == rule.op.t = "string" /\ rule.op.s \in ALLOWED_OPS

(* C9: an entry that is not an object yields exactly one error, at         *)
(* checks[i]; an object entry whose rule is not an object, or whose op is  *)
(* not allowed, yields that one rule-level error and nothing of an         *)
(* operator, while its id, severity, dimension, penalty and message are    *)
(* checked; with a valid op only that operator's diagnostics appear; and   *)
(* this holds of every entry, whatever came before it.                     *)
C9_PerCheckSkipsLocally ==
    \A k \in Validated :
        LET items == ItemsOf(k)
            errs == results[k].errors
        IN  /\ \A p \in DOMAIN errs :
                  errs[p].path.index # TopLevel => errs[p].path.index + 1 \in DOMAIN items
            /\ \A i \in DOMAIN items :
                  LET c == items[i]
                      mine == ErrorsOfIndex(errs, i - 1)
                      ruleErrs == SelectSeq(mine, LAMBDA e : e.path.field \in RuleFields)
                  IN  /\ c.t # "object" =>
                            /\ Len(mine) = 1
                            /\ mine[1].path = Path(i - 1, "")
                            /\ mine[1].message = MsgCheckObj
                      /\ c.t = "object" =>
                            /\ CommonChecksRan(k, i)
                            /\ ~HasErrorAt(errs, i - 1, "")
                            /\ c.rule.t # "object" =>
                                  /\ Len(ruleErrs) = 1
                                  /\ ruleErrs[1].path.field = "rule"
                                  /\ ruleErrs[1].message = MsgRule
                            /\ (c.rule.t = "object" /\ ~OpValid(c.rule)) =>
                                  /\ Len(ruleErrs) = 1
                                  /\ ruleErrs[1].path.field = "rule.op"
                                  /\ ruleErrs[1].message = MsgOp
                            /\ (c.rule.t = "object" /\ OpValid(c.rule)) =>
                                  \A p \in DOMAIN ruleErrs :
                                      /\ ruleErrs[p].path.field \in BranchFields(c.rule.op.s)
                                      /\ ruleErrs[p].message \in BranchMessages(c.rule.op.s)

C9_Witness ==
    \E k \in Validated :
        LET items == ItemsOf(k)
            errs == results[k].errors
        IN  /\ Len(items) = 3
            /\ items[1].t # "object"
            /\ items[2].t = "object"
            /\ items[2].rule.t # "object"
            /\ ~SeverityValid(items[2])
            /\ items[3].t = "object"
            /\ items[3].rule.t = "object"
            /\ ~OpValid(items[3].rule)
            /\ HasError(errs, 0, "", MsgCheckObj)
            /\ HasError(errs, 1, "rule", MsgRule)
            /\ HasErrorAt(errs, 1, "severity")
            /\ HasError(errs, 2, "rule.op", MsgOp)
            /\ HasErrorAt(errs, 2, "penalty")

(* C10: once the selector table has loaded and a ruleset file has been     *)
(* processed, the set of allowed selector names is not empty.              *)
C10_SelectorTableNonEmpty ==
    (TableLoads /\ Len(results) > 0) => allowedSelectors # {}

====
